---- MODULE Spec2Model ----
(***************************************************************************)
(* dash: a dashboard that periodically copies the log files of remote      *)
(* jobs with scp, parses them into series and plots them.                  *)
(*                                                                         *)
(* The model follows src/src/gui.rs (MyApp: the coordinator's tick and the *)
(* worker thread) and src/src/project.rs (Project, fetch, the parsers).    *)
(*                                                                         *)
(* Conventions                                                             *)
(*  - Registry indices are 0-based as in the source; the project with      *)
(*    index i is projects[i + 1].                                          *)
(*  - A project's name stands for its identity (name, host, path): every   *)
(*    target of the model has its own name.                                *)
(*  - Time is counted in clock units, TicksPerSec of them to a second, so  *)
(*    that Duration::as_secs truncates as it does in the program.          *)
(*  - A line of text is the sequence of its whitespace separated tokens; a *)
(*    token is [t |-> "int" | "dec" | "word", v |-> number].               *)
(***************************************************************************)
EXTENDS Integers, Sequences, FiniteSets, TLC

\* ------------------------------------------------------------------ bounds
MaxTime == 2
TicksPerSec == 2
MaxInit == 1
MaxProjects == 2
MaxQueue == 1
MaxVer == 1
MaxLines == 5
MaxSempLines == 4
LiveTargets == 2

\* ------------------------------------------------------- program constants
default_interval == 600

\* the intervals a configuration file gives its projects, in seconds: one
\* below and one above the default
Intervals == {0, default_interval + 1}

ProjectTypes == {"semp", "pbqff"}

\* ------------------------------------------------------------------ tokens
IntTok(n) == [t |-> "int", v |-> n]
DecTok(n) == [t |-> "dec", v |-> n]
WordTok(n) == [t |-> "word", v |-> n]

\* words of the log files
W_ITER == WordTok(1)
W_FINISHED == WordTok(2)
W_DROPPING == WordTok(3)
W_OTHER == WordTok(4)

\* s.chars().all(|c| c.is_numeric()): digits only, so "1.5" is not numeric
is_numeric(tok) == tok.t = "int"

\* str::parse::<f64>() succeeds on digit strings and on decimals
parses(tok) == tok.t \in {"int", "dec"}

\* line.starts_with("[iter ")
starts_with_iter(line) == Len(line) >= 1 /\ line[1] = W_ITER

\* line.starts_with("finished dropping")
starts_with_dropped(line) ==
    Len(line) >= 2 /\ line[1] = W_FINISHED /\ line[2] = W_DROPPING

\* ----------------------------------------------------------------- parsers
\* A parser returns [ok |-> TRUE, data |-> <<DataSet, ...>>], or ok |-> FALSE
\* where the program panics (unwrap on a missing or malformed token).
Panic == [ok |-> FALSE, data |-> <<>>]

DataSet(name, data) == [name |-> name, data |-> data]

RECURSIVE freqs_loop(_, _, _)
freqs_loop(lines, k, mae) ==
    IF k > Len(lines) THEN [ok |-> TRUE, data |-> mae]
    ELSE LET sp == lines[k] IN
         IF Len(sp) = 0 \/ ~parses(sp[1]) \/ ~parses(sp[Len(sp)]) THEN Panic
         ELSE freqs_loop(lines, k + 1, Append(mae, <<sp[1].v, sp[Len(sp)].v>>))

parse_freqs(contents) ==
    LET r == freqs_loop(contents, 1, <<>>) IN
    IF r.ok THEN [ok |-> TRUE, data |-> DataSet("MAE", r.data)] ELSE r

\* parse_semp with i += 1 outside the if: every line advances the counter
RECURSIVE semp_loop_count_all(_, _, _, _, _, _)
semp_loop_count_all(lines, k, i, norm, rmsd, max) ==
    IF k > Len(lines)
    THEN [ok |-> TRUE,
          data |-> <<DataSet("Norm", norm), DataSet("RMSD", rmsd),
                     DataSet("MAX", max)>>]
    ELSE LET sp == lines[k] IN
         IF Len(sp) >= 1 /\ is_numeric(sp[1])
         THEN IF Len(sp) < 6 \/ ~parses(sp[2]) \/ ~parses(sp[4])
                 \/ ~parses(sp[6])
              THEN Panic
              ELSE semp_loop_count_all(lines, k + 1, i + 1,
                                       Append(norm, <<i, sp[2].v>>),
                                       Append(rmsd, <<i, sp[4].v>>),
                                       Append(max, <<i, sp[6].v>>))
         ELSE semp_loop_count_all(lines, k + 1, i + 1, norm, rmsd, max)

RECURSIVE semp_loop(_, _, _, _, _, _)
semp_loop(lines, k, i, norm, rmsd, max) ==
    IF k > Len(lines)
    THEN [ok |-> TRUE,
          data |-> <<DataSet("Norm", norm), DataSet("RMSD", rmsd),
                     DataSet("MAX", max)>>]
    ELSE LET sp == lines[k] IN
         IF Len(sp) >= 1 /\ is_numeric(sp[1])
         THEN IF Len(sp) < 6 \/ ~parses(sp[2]) \/ ~parses(sp[4])
                 \/ ~parses(sp[6])
              THEN Panic
              ELSE semp_loop(lines, k + 1, i + 1,
                             Append(norm, <<i, sp[2].v>>),
                             Append(rmsd, <<i, sp[4].v>>),
                             Append(max, <<i, sp[6].v>>))
         ELSE semp_loop(lines, k + 1, i, norm, rmsd, max)

parse_semp(contents) == semp_loop(contents, 1, 0, <<>>, <<>>, <<>>)

\* parse_pbqff without ret.data.clear(): the phases run together
RECURSIVE pbqff_loop_keep(_, _, _, _)
pbqff_loop_keep(lines, k, did_drop, ret) ==
    IF k > Len(lines)
    THEN [ok |-> TRUE, data |-> <<DataSet("Points remaining", ret)>>]
    ELSE LET line == lines[k] IN
         IF starts_with_iter(line)
         THEN IF Len(line) < 8 \/ ~parses(line[2]) \/ ~parses(line[8])
              THEN Panic
              ELSE pbqff_loop_keep(lines, k + 1, FALSE,
                                   Append(ret, <<line[2].v, line[8].v>>))
         ELSE pbqff_loop_keep(lines, k + 1, did_drop, ret)

\* parse_pbqff with the clear at the "finished dropping" line itself
RECURSIVE pbqff_loop_eager(_, _, _, _)
pbqff_loop_eager(lines, k, did_drop, ret) ==
    IF k > Len(lines)
    THEN [ok |-> TRUE, data |-> <<DataSet("Points remaining", ret)>>]
    ELSE LET line == lines[k] IN
         IF starts_with_dropped(line)
         THEN pbqff_loop_eager(lines, k + 1, FALSE, <<>>)
         ELSE IF starts_with_iter(line)
         THEN IF Len(line) < 8 \/ ~parses(line[2]) \/ ~parses(line[8])
              THEN Panic
              ELSE pbqff_loop_eager(lines, k + 1, FALSE,
                                    Append(ret, <<line[2].v, line[8].v>>))
         ELSE pbqff_loop_eager(lines, k + 1, did_drop, ret)

RECURSIVE pbqff_loop(_, _, _, _)
pbqff_loop(lines, k, did_drop, ret) ==
    IF k > Len(lines)
    THEN [ok |-> TRUE, data |-> <<DataSet("Points remaining", ret)>>]
    ELSE LET line == lines[k]
             dropped == did_drop \/ starts_with_dropped(line)
         IN
         IF starts_with_iter(line)
         THEN IF Len(line) < 8 \/ ~parses(line[2]) \/ ~parses(line[8])
              THEN Panic
              ELSE pbqff_loop(lines, k + 1, FALSE,
                              Append(IF dropped THEN <<>> ELSE ret,
                                     <<line[2].v, line[8].v>>))
         ELSE pbqff_loop(lines, k + 1, dropped, ret)

parse_pbqff(contents) == pbqff_loop(contents, 1, FALSE, <<>>)

\* ------------------------------------------------------------ remote files
\* What a remote job has written so far is the environment's choice: version
\* 0 is a file caught while its last line is being written, versions
\* 1..MaxVer are well-formed and differ per target and version.
Versions == 0..MaxVer

Stamp(name, ver) == 10 * name + ver

NoFile == [name |-> 0, typ |-> "none", ver |-> 0]

FileKey(name, typ, ver) == [name |-> name, typ |-> typ, ver |-> ver]

\* the text of a file, given what was copied into it
FileContent(f) ==
    LET y == Stamp(f.name, f.ver) IN
    CASE f.typ = "pbqff" ->
           IF f.ver = 0 THEN << <<W_ITER, IntTok(1)>> >>
           ELSE << <<W_OTHER, W_OTHER>>,
                   <<W_ITER, IntTok(f.ver), W_OTHER, W_OTHER, W_OTHER, W_OTHER,
                     W_OTHER, IntTok(y)>> >>
      [] f.typ = "semp" ->
           IF f.ver = 0 THEN << <<IntTok(0), DecTok(y)>> >>
           ELSE << <<W_OTHER>>,
                   <<IntTok(f.ver), DecTok(y), W_OTHER, DecTok(y), W_OTHER,
                     DecTok(y)>> >>
      [] f.typ = "freqs" ->
           IF f.ver = 0 THEN << <<>> >>
           ELSE << <<IntTok(1), DecTok(y)>> >>
      [] OTHER -> <<>>

\* meta.modified() of a file copied with scp -p: the remote file's own time
FileModified(f) == Stamp(f.name, f.ver)

\* ------------------------------------------------------------------- fetch
\* What one run of scp can do: fail to launch (Command::status is Err), exit
\* with a failure status having written nothing, or copy the file.
ScpOutcomes == {"launch_err", "exit_fail", "ok"}

Envs == [scp1 : ScpOutcomes, scp2 : ScpOutcomes, ver : Versions]

FetchErr(tmp) ==
    [res |-> "err", tmp |-> tmp, last_modified |-> 0, data |-> <<>>,
     copied |-> FALSE]

FetchPanic(tmp) ==
    [res |-> "panic", tmp |-> tmp, last_modified |-> 0, data |-> <<>>,
     copied |-> FALSE]

\* cmd.status()? followed by File::open(output)?: the exit status is dropped,
\* so after a failing copy the file an earlier fetch left is opened.
scp(out, remote, outcome) == IF outcome = "ok" THEN remote ELSE out

\* the Semp arm of fetch: the second copy, of freqs.log
fetch_freqs(self, tmp, env, last_modified, data) ==
    IF env.scp2 = "launch_err" THEN FetchErr(tmp)
    ELSE LET out == scp(tmp.freqs, FileKey(self.name, "freqs", env.ver),
                        env.scp2)
             tmp2 == [tmp EXCEPT !.freqs = out]
         IN
         IF out = NoFile THEN FetchErr(tmp2)
         ELSE LET mae == parse_freqs(FileContent(out)) IN
              IF ~mae.ok THEN FetchPanic(tmp2)
              ELSE [res |-> "ok", tmp |-> tmp2,
                    last_modified |-> last_modified,
                    data |-> Append(data, mae.data),
                    copied |-> env.scp1 = "ok" /\ env.scp2 = "ok"]

fetch(self, tmp, env) ==
    IF env.scp1 = "launch_err" THEN FetchErr(tmp)
    ELSE LET out == scp(tmp.path, FileKey(self.name, self.typ, env.ver),
                        env.scp1)
             tmp1 == [tmp EXCEPT !.path = out]
         IN
         IF out = NoFile THEN FetchErr(tmp1)
         ELSE LET last_modified == FileModified(out)
                  contents == FileContent(out)
              IN
              IF self.typ = "semp"
              THEN LET d == parse_semp(contents) IN
                   IF ~d.ok THEN FetchPanic(tmp1)
                   ELSE fetch_freqs(self, tmp1, env, last_modified, d.data)
              ELSE LET d == parse_pbqff(contents) IN
                   IF ~d.ok THEN FetchPanic(tmp1)
                   ELSE [res |-> "ok", tmp |-> tmp1,
                         last_modified |-> last_modified, data |-> d.data,
                         copied |-> env.scp1 = "ok"]

\* Project::update with self.data.extend(data): the new series are appended
update_merging(self, tmp, env, t) ==
    LET f == fetch(self, tmp, env) IN
    [res |-> f.res, tmp |-> f.tmp, copied |-> f.copied,
     project |-> IF f.res = "ok"
                 THEN [self EXCEPT !.data = @ \o f.data, !.last_updated = t,
                                   !.last_modified = f.last_modified]
                 ELSE self]

\* Project::update at clock reading t: on Ok the project is rewritten,
\* last_updated included
update(self, tmp, env, t) ==
    LET f == fetch(self, tmp, env) IN
    [res |-> f.res, tmp |-> f.tmp, copied |-> f.copied,
     project |-> IF f.res = "ok"
                 THEN [self EXCEPT !.data = f.data, !.last_updated = t,
                                   !.last_modified = f.last_modified]
                 ELSE self]

\* Project::needs_update at clock reading t (as_secs truncates)
needs_update(self, t) ==
    ((t - self.last_updated) \div TicksPerSec) > self.update_interval

\* Project::new at clock reading t
NewProject(name, typ, t) ==
    [name |-> name, typ |-> typ, last_updated |-> t,
     update_interval |-> default_interval, data |-> <<>>, last_modified |-> 0]

\* ------------------------------------------------------------------- state
VARIABLES
    projects,     \* config.projects: the registry, a sequence of Project
    to_delete,    \* MyApp.to_delete: indices to remove at the end of the loop
    next_name,    \* the name the user types next into the add window
    requests,     \* the channel sender -> inner_receiver: (idx, Project)
    results,      \* the channel inner_sender -> receiver: (idx, Project), and
                  \* with each result whether every scp of its fetch exited
                  \* with success (copied: history, not read by the program)
    worker,       \* the worker thread: "idle" in recv, "busy" in update, "dead"
    cur,          \* the request the worker is processing
    temp,         \* the temp directory: what path.dat and freqs.log hold
    now,          \* Instant::now(), in clock units
    gui,          \* the coordinator thread: "running", or where it panicked
    last_tick,    \* what the tick that has just run did, step by step
    contents,     \* the text handed to a parser, a sequence of lines
    parsed        \* what the parser made of it

vars == <<projects, to_delete, next_name, requests, results, worker,
          cur, temp, now, gui, last_tick, contents, parsed>>

\* the variables of the parsers, and those of the coordinator and the worker
pvars == <<contents, parsed>>

avars == <<projects, to_delete, next_name, requests, results, worker,
           cur, temp, now, gui, last_tick>>

NoParse == [by |-> "none", ok |-> TRUE, data |-> <<>>]

NoRequest == [idx |-> 0, project |-> NoFile]

NoTick ==
    [scanned |-> <<>>, sent |-> <<>>, removed |-> <<>>, kept |-> <<>>,
     applied |-> <<>>, repaint |-> -1]

\* the names of a registry, in order
Names(ps) == [k \in 1..Len(ps) |-> ps[k].name]

\* ------------------------------------------------------------- coordinator
\* The coordinator's part of the state, as the methods of MyApp see it:
\* [projects, to_delete, next_name, sender, panic]. panic is
\* "none" until the thread panics, then the place of the panic: "invalid typ"
\* (add_project), "request" (an index out of bounds in request_update),
\* "send" (the unwrap of a failed send), "remove" (Vec::remove out of bounds)
\* or "index" (an index out of bounds in the drain). `open` says whether the
\* worker still holds inner_receiver (a send fails once it is dropped), `t`
\* is the clock reading.
Ok(self) == self.panic = "none"

\* MyApp::request_update
request_update(self, idx, t, open) ==
    IF idx >= Len(self.projects) THEN [self EXCEPT !.panic = "request"]
    ELSE LET ps == [self.projects EXCEPT ![idx + 1].last_updated = t] IN
         IF open
         THEN [self EXCEPT !.projects = ps,
                           !.sender = Append(@, [idx |-> idx,
                                                 project |-> ps[idx + 1]])]
         ELSE [self EXCEPT !.projects = ps, !.panic = "send"]

\* MyApp::min_timeout
RECURSIVE MinInterval(_, _)
MinInterval(ps, k) ==
    IF k = Len(ps) THEN ps[k].update_interval
    ELSE LET m == MinInterval(ps, k + 1) IN
         IF ps[k].update_interval <= m THEN ps[k].update_interval ELSE m

min_timeout(self) ==
    IF Len(self.projects) = 0 THEN default_interval
    ELSE MinInterval(self.projects, 1)

\* an add_project that enqueues the length of the registry after the push,
\* one past the last index
add_project_past_end(self, add, t, open) ==
    IF add = "none" THEN self
    ELSE IF add \notin ProjectTypes THEN [self EXCEPT !.panic = "invalid typ"]
    ELSE request_update(
             [self EXCEPT !.projects =
                              Append(@, NewProject(self.next_name, add, t)),
                          !.next_name = @ + 1],
             Len(self.projects) + 1, t, open)

\* MyApp::add_project, the click on Add: add is "none" (no click), "semp",
\* "pbqff" or "bad" (any other text in the type field). Whether the add
\* window is shown (show_add) is left to the user: a click on Add stands
\* for a frame in which the window is open.
add_project(self, add, t, open) ==
    IF add = "none" THEN self
    ELSE IF add \notin ProjectTypes THEN [self EXCEPT !.panic = "invalid typ"]
    ELSE request_update(
             [self EXCEPT !.projects =
                              Append(@, NewProject(self.next_name, add, t)),
                          !.next_name = @ + 1],
             Len(self.projects), t, open)

\* MyApp::request_removal
request_removal(self, idx) == [self EXCEPT !.to_delete = Append(@, idx)]

\* to_delete.sort_by(|a, b| b.cmp(a))
RECURSIVE SortDesc(_)
SortDesc(s) ==
    IF Len(s) = 0 THEN <<>>
    ELSE LET k == CHOOSE k \in 1..Len(s) : \A j \in 1..Len(s) : s[j] <= s[k]
         IN <<s[k]>> \o SortDesc(SubSeq(s, 1, k - 1) \o SubSeq(s, k + 1, Len(s)))

\* Vec::remove(i), for i < len
RemoveAt(ps, i) == SubSeq(ps, 1, i) \o SubSeq(ps, i + 2, Len(ps))

\* for i in to_delete { self.config.projects.remove(i); }
RECURSIVE remove_all(_, _)
remove_all(self, order) ==
    IF Len(order) = 0 \/ ~Ok(self) THEN self
    ELSE IF Head(order) >= Len(self.projects)
         THEN [self EXCEPT !.panic = "remove"]
         ELSE remove_all([self EXCEPT !.projects = RemoveAt(@, Head(order))],
                         Tail(order))

\* do_removal without its sort: the indices in the order of the requests
removal_order_unsorted(td) == td

\* the order in which do_removal removes
removal_order(td) == SortDesc(td)

\* MyApp::do_removal
do_removal(self) ==
    remove_all([self EXCEPT !.to_delete = <<>>],
               removal_order(self.to_delete))

\* one iteration of the loop over the registry in MyApp::update
scan_one(self, i, force, remove, t, open) ==
    LET s1 == IF needs_update(self.projects[i + 1], t)
              THEN request_update(self, i, t, open) ELSE self
        s2 == IF Ok(s1) /\ i \in force
              THEN request_update(s1, i, t, open) ELSE s1
    IN IF Ok(s2) /\ i \in remove THEN request_removal(s2, i) ELSE s2

\* for i in 0..self.config.projects.len()
RECURSIVE scan(_, _, _, _, _, _, _)
scan(self, i, n, force, remove, t, open) ==
    IF i >= n \/ ~Ok(self) THEN self
    ELSE scan(scan_one(self, i, force, remove, t, open), i + 1, n, force,
              remove, t, open)

\* The record of one step of the drain, self.config.projects[idx] = project:
\* rname is the name the result carries and copied its history (below); at
\* is the name stored at idx before the assignment (0 when idx is out of
\* bounds and the assignment panics); wrote says the assignment was made;
\* before and after are that slot's last_updated around it; changed says the
\* slot's series or last_modified differ after it; had says the slot held
\* series before it; listed says a target of the result's name is in the
\* registry when the result is received.
Applied(self, r) ==
    LET inb == r.idx < Len(self.projects)
        old == self.projects[r.idx + 1]
    IN [idx |-> r.idx, rname |-> r.project.name, copied |-> r.copied,
        at |-> IF inb THEN old.name ELSE 0,
        wrote |-> inb,
        before |-> IF inb THEN old.last_updated ELSE 0,
        after |-> IF inb THEN r.project.last_updated ELSE 0,
        changed |-> inb /\ (old.data # r.project.data
                            \/ old.last_modified # r.project.last_modified),
        had |-> inb /\ old.data # <<>>,
        listed |-> \E k \in 1..Len(self.projects) :
                       self.projects[k].name = r.project.name]

\* while let Ok((idx, project)) = self.receiver.try_recv()
\* returns [self, left, log]: the coordinator, the results not received, and
\* the records of the results received
RECURSIVE drain(_, _, _)
drain(self, rs, log) ==
    IF Len(rs) = 0 \/ ~Ok(self)
    THEN [self |-> self, left |-> rs, log |-> log]
    ELSE LET r == Head(rs)
             e == Applied(self, r)
         IN IF r.idx >= Len(self.projects)
            THEN drain([self EXCEPT !.panic = "index"], Tail(rs),
                       Append(log, e))
            ELSE drain([self EXCEPT !.projects[r.idx + 1] = r.project],
                       Tail(rs), Append(log, e))

\* the steps of MyApp::update after the add window, in the order of the
\* source: the loop over the registry, do_removal, the drain
\* returns [scanned, removed, self, left, log]
tick_steps(self, force, remove, rs, t, open) ==
    LET c3 == scan(self, 0, Len(self.projects), force, remove, t, open)
        c4 == IF Ok(c3) THEN do_removal(c3) ELSE c3
        d  == drain(c4, rs, <<>>)
    IN [removed |-> c3.to_delete, kept |-> Names(c4.projects),
        self |-> d.self, left |-> d.left, log |-> d.log]

\* MyApp::update: one tick at clock reading t, with the user's clicks of
\* this frame (add: the add window's Add button; force, remove: the indices
\* whose Force Update and Remove Project were clicked) and the results rs
\* waiting in the receiver. Returns [self, left, tick]; tick.repaint is the
\* argument of ctx.request_repaint_after, the method's first statement, in
\* seconds.
app_update(self, add, force, remove, rs, t, open) ==
    LET c2 == add_project(self, add, t, open)
        d  == tick_steps(c2, force, remove, rs, t, open)
        new == SubSeq(d.self.sender, Len(self.sender) + 1, Len(d.self.sender))
    IN [self |-> d.self, left |-> d.left,
        tick |-> [scanned |-> Names(c2.projects),
                  sent |-> [k \in 1..Len(new) |->
                               [idx |-> new[k].idx,
                                name |-> new[k].project.name]],
                  removed |-> d.removed, kept |-> d.kept,
                  applied |-> d.log, repaint |-> min_timeout(self)]]

\* ----------------------------------------------------------------- actions
\* the type of the target called name, in the configuration file or as the
\* user types it into the add window
InitTyp(name) == IF name % 2 = 1 THEN "pbqff" ELSE "semp"

Self ==
    [projects |-> projects, to_delete |-> to_delete,
     next_name |-> next_name, sender |-> requests, panic |-> "none"]

\* what is left when the coordinator panics: the process ends
Crashed(why, tick) ==
    /\ gui' = why
    /\ last_tick' = tick
    /\ projects' = <<>>
    /\ to_delete' = <<>>
    /\ next_name' = next_name
    /\ requests' = <<>>
    /\ results' = <<>>

\* a frame of the GUI: the clicks are the user's, within the windows shown.
\* adds, forces and removes are the clicks the user may make in the frame,
\* qmax the number of requests the model lets wait in the channel
Frame(adds, forces, removes, qmax) ==
    /\ gui = "running"
    /\ \E add \in adds, force \in forces, remove \in removes :
         LET n == Len(projects) + (IF add \in ProjectTypes THEN 1 ELSE 0)
         IN /\ add \in ProjectTypes => next_name <= MaxProjects
            /\ force \cup remove \subseteq 0..(n - 1)
            /\ force \cap remove = {}
            /\ \E r \in {app_update(Self, add, force, remove, results, now,
                                   worker # "dead")} :
                 /\ Len(r.self.sender) <= qmax
                 /\ IF Ok(r.self)
                    THEN /\ projects' = r.self.projects
                         /\ to_delete' = r.self.to_delete
                         /\ next_name' = r.self.next_name
                         /\ requests' = r.self.sender
                         /\ results' = r.left
                         /\ gui' = "running"
                         /\ last_tick' = r.tick
                    ELSE Crashed(r.self.panic, r.tick)
    /\ UNCHANGED <<worker, cur, temp, now, pvars>>

Tick ==
    Frame({"none", "bad", InitTyp(next_name)}, SUBSET (0..(MaxProjects - 1)),
          SUBSET (0..(MaxProjects - 1)), MaxQueue)

\* the worker thread with a LIFO channel: recv() returns the newest request
WorkerRecvNewest ==
    /\ gui = "running"
    /\ worker = "idle"
    /\ Len(requests) > 0
    /\ cur' = requests[Len(requests)]
    /\ requests' = SubSeq(requests, 1, Len(requests) - 1)
    /\ worker' = "busy"
    /\ last_tick' = NoTick
    /\ UNCHANGED <<projects, to_delete, next_name, results, temp,
                   now, gui, pvars>>

\* the worker thread: inner_receiver.recv() returns a request
WorkerRecv ==
    /\ gui = "running"
    /\ worker = "idle"
    /\ Len(requests) > 0
    /\ cur' = Head(requests)
    /\ requests' = Tail(requests)
    /\ worker' = "busy"
    /\ last_tick' = NoTick
    /\ UNCHANGED <<projects, to_delete, next_name, results, temp,
                   now, gui, pvars>>

\* a worker thread that sends the result of one request twice
WorkerStepTwice(envs) ==
    /\ gui = "running"
    /\ worker = "busy"
    /\ \E env \in envs : \E r \in {update(cur.project, temp, env, now)} :
         /\ temp' = r.tmp
         /\ IF r.res = "ok"
            THEN /\ results' = results \o
                               << [idx |-> cur.idx, project |-> r.project,
                                   copied |-> r.copied],
                                  [idx |-> cur.idx, project |-> r.project,
                                   copied |-> r.copied] >>
                 /\ worker' = "idle"
            ELSE /\ results' = results
                 /\ worker' = "dead"
    /\ cur' = NoRequest
    /\ last_tick' = NoTick
    /\ UNCHANGED <<projects, to_delete, next_name, requests, now,
                   gui, pvars>>

\* the worker thread: project.update(temp).unwrap(), then
\* inner_sender.send((i, project)).unwrap(); envs is what scp and the remote
\* file may do
WorkerStep(envs) ==
    /\ gui = "running"
    /\ worker = "busy"
    /\ \E env \in envs : \E r \in {update(cur.project, temp, env, now)} :
         /\ temp' = r.tmp
         /\ IF r.res = "ok"
            THEN /\ results' = Append(results,
                                      [idx |-> cur.idx, project |-> r.project,
                                       copied |-> r.copied])
                 /\ worker' = "idle"
            ELSE /\ results' = results
                 /\ worker' = "dead"
    /\ cur' = NoRequest
    /\ last_tick' = NoTick
    /\ UNCHANGED <<projects, to_delete, next_name, requests, now,
                   gui, pvars>>

WorkerUpdate == WorkerStep(Envs)

\* time passes
Advance ==
    /\ gui = "running"
    /\ now < MaxTime
    /\ now' = now + 1
    /\ last_tick' = NoTick
    /\ UNCHANGED <<projects, to_delete, next_name, requests, results,
                   worker, cur, temp, gui, pvars>>

LoadEnv == [scp1 |-> "ok", scp2 |-> "ok", ver |-> 1]

\* Config::load: every project of the file is updated before the GUI starts;
\* a start whose first fetch fails never reaches MyApp::new
RECURSIVE load(_, _, _)
load(ivs, k, acc) ==
    IF k > Len(ivs) THEN acc
    ELSE LET p == [NewProject(k, InitTyp(k), 0) EXCEPT
                       !.update_interval = ivs[k]]
             u == update(p, acc.temp, LoadEnv, 0)
         IN load(ivs, k + 1,
                 [projects |-> Append(acc.projects, u.project), temp |-> u.tmp])

\* ------------------------------------------------------------------- start
Init ==
    \E n \in 0..MaxInit : \E ivs \in [1..n -> Intervals] :
        LET l == load(ivs, 1, [projects |-> <<>>,
                               temp |-> [path |-> NoFile, freqs |-> NoFile]])
        IN /\ projects = l.projects
           /\ temp = l.temp
           /\ next_name = n + 1
           /\ to_delete = <<>>
           /\ requests = <<>>
           /\ results = <<>>
           /\ worker = "idle"
           /\ cur = NoRequest
           /\ now = 0
           /\ gui = "running"
           /\ last_tick = NoTick
           /\ contents = <<>>
           /\ parsed = NoParse

Next == Tick \/ WorkerRecv \/ WorkerUpdate \/ Advance

Spec == Init /\ [][Next]_vars

\* ------------------------------------------- a run in which fetches succeed
\* LiveTargets targets from the configuration file, each with interval 0.
\* Every scp succeeds on a well-formed file; the user clicks Force Update
\* and Remove Project, but never removes the last target of the file, Kept.
\* Ticks recur (request_repaint_after) and the worker thread is scheduled.
Kept == LiveTargets

InitLive ==
    LET l == load([k \in 1..LiveTargets |-> 0], 1,
                  [projects |-> <<>>,
                   temp |-> [path |-> NoFile, freqs |-> NoFile]])
    IN /\ projects = l.projects
       /\ temp = l.temp
       /\ next_name = LiveTargets + 1
       /\ to_delete = <<>>
       /\ requests = <<>>
       /\ results = <<>>
       /\ worker = "idle"
       /\ cur = NoRequest
       /\ now = 0
       /\ gui = "running"
       /\ last_tick = NoTick
       /\ contents = <<>>
       /\ parsed = NoParse

\* the indices of the targets other than Kept
Others == {i \in 0..(Len(projects) - 1) : projects[i + 1].name # Kept}

TickLive ==
    Frame({"none"}, SUBSET (0..(LiveTargets - 1)), SUBSET Others,
          LiveTargets + 1)

WorkerUpdateOk == WorkerStep({LoadEnv})

NextLive == TickLive \/ WorkerRecv \/ WorkerUpdateOk \/ Advance

\* Ticks keep recurring while the coordinator runs. A step that leaves a
\* tick's record in last_tick is a step of TickLive, and TickLive can be
\* taken whenever gui = "running", so this is weak fairness of TickLive
\* with its enabling condition written out.
TicksRecur ==
    []<>(gui # "running") \/ []<><<last_tick'.repaint >= 0>>_vars

SpecLive ==
    /\ InitLive
    /\ [][NextLive]_vars
    /\ TicksRecur
    /\ WF_vars(WorkerRecv)
    /\ WF_vars(WorkerUpdateOk)

\* ------------------------------------------------------- the parsers alone
\* The lines of a pbqff log: "[iter i ... remaining" with eight tokens, the
\* line "finished dropping", any other line, and an iteration line cut short.
IterLine(i, remaining) ==
    <<W_ITER, IntTok(i), W_OTHER, W_OTHER, W_OTHER, W_OTHER, W_OTHER,
      IntTok(remaining)>>

DropLine == <<W_FINISHED, W_DROPPING>>

OtherLine == <<W_OTHER, IntTok(7)>>

CutIterLine == <<W_ITER, IntTok(1)>>

PbqffLines ==
    {IterLine(1, 5), IterLine(2, 4), IterLine(1, 9), IterLine(2, 8),
     DropLine, OtherLine, CutIterLine}

\* The lines of a semp log: a line of numbers led by a token of digits, the
\* same led by a word or by a decimal, a blank line, and a line cut short.
SempLine(first, n) ==
    <<first, DecTok(n), W_OTHER, DecTok(n + 1), W_OTHER, DecTok(n + 2)>>

CutSempLine == <<IntTok(3), DecTok(15)>>

SempLines ==
    {SempLine(IntTok(3), 10), SempLine(IntTok(4), 20),
     SempLine(W_OTHER, 30), SempLine(DecTok(5), 40), <<>>, CutSempLine}

\* the texts of at most n lines over a set of lines
Texts(lines, n) == UNION {[1..k -> lines] : k \in 0..n}

\* the coordinator and the worker, standing still
Idle ==
    /\ projects = <<>>
    /\ to_delete = <<>>
    /\ next_name = 1
    /\ requests = <<>>
    /\ results = <<>>
    /\ worker = "idle"
    /\ cur = NoRequest
    /\ temp = [path |-> NoFile, freqs |-> NoFile]
    /\ now = 0
    /\ gui = "running"
    /\ last_tick = NoTick

InitParse ==
    /\ Idle
    /\ contents \in Texts(PbqffLines, MaxLines) \cup Texts(SempLines, MaxSempLines)
    /\ parsed = NoParse

\* parse_pbqff(contents); a panic leaves ok = FALSE and no series
ParsePbqff ==
    /\ parsed.by = "none"
    /\ \E r \in {parse_pbqff(contents)} :
         parsed' = [by |-> "pbqff", ok |-> r.ok, data |-> r.data]
    /\ UNCHANGED <<avars, contents>>

\* parse_semp(contents)
ParseSemp ==
    /\ parsed.by = "none"
    /\ \E r \in {parse_semp(contents)} :
         parsed' = [by |-> "semp", ok |-> r.ok, data |-> r.data]
    /\ UNCHANGED <<avars, contents>>

NextParse == ParsePbqff \/ ParseSemp

SpecParse == InitParse /\ [][NextParse]_vars

\* ================================================================== claims
\* the records of the results the tick that has just run received
AppliedNow == {last_tick.applied[k] : k \in 1..Len(last_tick.applied)}

\* how many elements of a channel are about the target called name
CountFor(chan, name) ==
    Cardinality({k \in 1..Len(chan) : chan[k].project.name = name})

\* the requests for a target that were sent and whose result is not applied:
\* queued, in the worker's hands, or a result waiting for the drain
InFlightFor(name) ==
    CountFor(requests, name) + CountFor(results, name)
    + (IF worker = "busy" /\ cur.project.name = name THEN 1 ELSE 0)

\* C1: at most one refresh request per target is in flight at any time.
C1_AtMostOneInFlight == \A name \in 1..MaxProjects : InFlightFor(name) <= 1

\* C2: a request that ends in the worker without a result (its fetch or
\* parse failed) leaves the worker consuming requests.
C2_WorkerSurvivesFailure ==
    [][(worker = "busy" /\ worker' # "busy" /\ results' = results)
          => worker' = "idle"]_vars

\* C3: a result whose remote copy exited with a failure status, applied to
\* the target it was requested for, leaves that target's series and
\* last-modified timestamp as they were.
C3_FailedCopyLeavesTarget ==
    \A e \in AppliedNow : (~e.copied /\ e.at = e.rname) => ~e.changed

\* C4: no send of request_update fails, also after a refresh has failed in
\* the worker: the coordinator never panics on a send.
C4_SendNeverFails == gui # "send"

\* C5: a result whose target is no longer in the registry is discarded: it
\* is written nowhere and the drain does not panic on its index.
C5_RemovedResultDiscarded ==
    \A e \in AppliedNow : ~e.listed => (~e.wrote /\ gui # "index")

\* C6: a result is written only over the target its request was built from.
C6_AppliedToOwnTarget == \A e \in AppliedNow : e.wrote => e.at = e.rname

\* C7: applying a result to its target leaves the target's last_updated as
\* the latest enqueue set it.
C7_CompletionKeepsLastUpdated ==
    \A e \in AppliedNow : (e.wrote /\ e.at = e.rname) => e.after = e.before

\* C8: applying a result to its target never moves the target's last_updated
\* backwards.
C8_LastUpdatedMonotonic ==
    \A e \in AppliedNow : (e.wrote /\ e.at = e.rname) => e.after >= e.before

\* the elements of s whose 0-based index is not in gone, in their order
RECURSIVE Survivors(_, _, _)
Survivors(s, gone, k) ==
    IF k > Len(s) THEN <<>>
    ELSE (IF (k - 1) \in gone THEN <<>> ELSE <<s[k]>>)
         \o Survivors(s, gone, k + 1)

Range(s) == {s[k] : k \in 1..Len(s)}

\* C9: the removals requested during a tick's loop are applied after the
\* loop (every request the loop sent carries the index its target had when
\* the loop began), removing never panics, and the registry left by
\* do_removal is the scanned registry without the targets at the requested
\* indices, the others in their order.
C9_BatchRemovalExact ==
    /\ gui # "remove"
    /\ gui \in {"running", "index"} =>
         /\ last_tick.kept =
                Survivors(last_tick.scanned, Range(last_tick.removed), 1)
         /\ \A k \in 1..Len(last_tick.sent) :
                /\ last_tick.sent[k].idx < Len(last_tick.scanned)
                /\ last_tick.scanned[last_tick.sent[k].idx + 1]
                       = last_tick.sent[k].name

\* a tick that removed a batch of two targets
C9_Witness == gui = "running" /\ Len(last_tick.removed) >= 2

\* the name that stood at index idx when the tick's loop ran (0: none)
AtScan(idx) ==
    IF idx < Len(last_tick.scanned) THEN last_tick.scanned[idx + 1] ELSE 0

\* C10: the drain runs before the deferred removals: every result received
\* in a tick meets, at its index, the target that stood there during the
\* tick's loop.
C10_DrainBeforeRemoval == \A e \in AppliedNow : e.at = AtScan(e.idx)

\* C12: the coordinator never waits for the worker: while the worker thread
\* lives, idle or in a fetch, every tick (the text of the add window being
\* valid) runs to its end, whatever is queued and whether or not a result
\* is waiting.
C12_TickCompletes == worker # "dead" => gui \in {"running", "invalid typ"}

\* the scan's step for the target at index i, were a tick to run now,
\* enqueues a request for it and sets its last_updated to now
ScanEnqueues(i) ==
    LET s == scan_one(Self, i, {}, {}, now, TRUE) IN
    /\ s.sender = Append(requests, [idx |-> i, project |-> s.projects[i + 1]])
    /\ s.projects[i + 1].last_updated = now

\* C13: the scan enqueues a target exactly when the time since its
\* last_updated exceeds its interval, by however little.
C13_ScanEnqueuesWhenOverdue ==
    gui = "running" =>
        \A i \in 0..(Len(projects) - 1) :
            ScanEnqueues(i) <=>
                (now - projects[i + 1].last_updated
                     > projects[i + 1].update_interval * TicksPerSec)

\* C14: a refresh whose scp exited with a failure status produces no
\* result: every result in the channel comes from copies that succeeded.
C14_FailedCopyYieldsNoResult == \A k \in 1..Len(results) : results[k].copied

\* the smallest interval of the registry, the default when it is empty
RegistryMin ==
    IF Len(projects) = 0 THEN default_interval
    ELSE CHOOSE m \in {projects[k].update_interval : k \in 1..Len(projects)} :
             \A k \in 1..Len(projects) : m <= projects[k].update_interval

\* C17: the bound a tick puts on the wait for the next tick is the smallest
\* interval of the registry as the tick leaves it, so it exceeds the
\* interval of no registered target.
C17_RepaintBoundIsMinInterval ==
    (gui = "running" /\ last_tick.repaint >= 0) =>
        /\ last_tick.repaint = RegistryMin
        /\ \A k \in 1..Len(projects) :
               last_tick.repaint <= projects[k].update_interval

\* C11: the worker takes the oldest request of the channel, and only when
\* it has finished the one before; it appends the result of the request it
\* holds behind the results that wait; a tick appends its requests behind
\* those queued and receives the waiting results oldest first. So requests
\* are processed, and their results received, in the order of the sends.
C11_SendOrderKept ==
    [][/\ (worker # "busy" /\ worker' = "busy") =>
             /\ worker = "idle"
             /\ requests # <<>>
             /\ cur' = Head(requests)
             /\ requests' = Tail(requests)
       /\ Len(results') > Len(results) =>
             /\ worker = "busy"
             /\ Len(results') = Len(results) + 1
             /\ SubSeq(results', 1, Len(results)) = results
             /\ results'[Len(results')].idx = cur.idx
             /\ results'[Len(results')].project.name = cur.project.name
       /\ (gui' = "running" /\ last_tick'.repaint >= 0) =>
             /\ Len(requests') >= Len(requests)
             /\ SubSeq(requests', 1, Len(requests)) = requests
             /\ Len(last_tick'.applied) <= Len(results)
             /\ \A k \in 1..Len(last_tick'.applied) :
                    /\ last_tick'.applied[k].idx = results[k].idx
                    /\ last_tick'.applied[k].rname = results[k].project.name
             /\ results' = SubSeq(results, Len(last_tick'.applied) + 1,
                                  Len(results))]_vars

\* a tick received the results of two requests for different targets, the
\* one sent first before the other
C11_Witness ==
    /\ gui = "running"
    /\ Len(last_tick.sent) = 0
    /\ Len(last_tick.applied) >= 2
    /\ last_tick.applied[1].rname = 1
    /\ last_tick.applied[2].rname = 2

\* Kept is stale: a tick's scan would enqueue it
KeptStale ==
    /\ gui = "running"
    /\ \E k \in 1..Len(projects) :
           projects[k].name = Kept /\ needs_update(projects[k], now)

\* a tick applied a result for Kept to Kept
KeptApplied ==
    \E e \in AppliedNow : e.wrote /\ e.rname = Kept /\ e.at = Kept

\* C19: fetches succeeding, ticks recurring, the worker scheduled and Kept
\* never removed, whenever Kept is stale a result for it is eventually
\* applied to it.
C19_StaleLeadsToApplied == KeptStale ~> KeptApplied

\* what the parsers make of the files a fetch for a target of type typ has
\* read from the temp directory tmp
ParsedFrom(typ, tmp) ==
    IF typ = "semp"
    THEN Append(parse_semp(FileContent(tmp.path)).data,
                parse_freqs(FileContent(tmp.freqs)).data)
    ELSE parse_pbqff(FileContent(tmp.path)).data

\* the result applied at step k of a drain is the last one written to its
\* index in that drain
LastAt(log, k) ==
    \A j \in (k + 1)..Len(log) : ~(log[j].wrote /\ log[j].idx = log[k].idx)

\* C18: series are replaced wholesale. The result the worker sends carries
\* exactly the parsers' output for the files its fetch read, whatever series
\* the request's snapshot held; and a result the drain applies leaves at its
\* index exactly the series it carries.
C18_SeriesReplaced ==
    [][/\ (worker = "busy" /\ Len(results') = Len(results) + 1) =>
             results'[Len(results')].project.data
                 = ParsedFrom(cur.project.typ, temp')
       /\ (gui' = "running" /\ last_tick'.repaint >= 0) =>
             \A k \in 1..Len(last_tick'.applied) :
                 (last_tick'.applied[k].wrote
                      /\ LastAt(last_tick'.applied, k)
                      /\ last_tick'.applied[k].idx < Len(projects'))
                     => projects'[last_tick'.applied[k].idx + 1].data
                            = results[k].project.data]_vars

\* a result whose copies succeeded was applied to its own target, which
\* held other series before
C18_Witness ==
    /\ gui = "running"
    /\ \E e \in AppliedNow :
           e.wrote /\ e.at = e.rname /\ e.copied /\ e.had /\ e.changed

\* ------------------------------------------------------ claims on parsers
\* the points of the iteration lines of a text from line k on, in order
RECURSIVE IterPoints(_, _)
IterPoints(text, k) ==
    IF k > Len(text) THEN <<>>
    ELSE (IF starts_with_iter(text[k])
          THEN << <<text[k][2].v, text[k][8].v>> >> ELSE <<>>)
         \o IterPoints(text, k + 1)

\* the dropped-marker lines of a text that an iteration line follows
DropsBeforeIter(text) ==
    {k \in 1..Len(text) :
        /\ starts_with_dropped(text[k])
        /\ \E j \in (k + 1)..Len(text) : starts_with_iter(text[j])}

Max(S) == CHOOSE m \in S : \A n \in S : n <= m

\* C15: when parse_pbqff returns for a text with a dropped-marker line that
\* iteration lines follow, its series holds exactly the points of the
\* iteration lines after that marker (the latest such one), in the order of
\* the text, and none of the points before it.
C15_PointsAfterDrop ==
    (parsed.by = "pbqff" /\ parsed.ok /\ DropsBeforeIter(contents) # {})
        => parsed.data =
             <<DataSet("Points remaining",
                       IterPoints(contents, Max(DropsBeforeIter(contents)) + 1))>>

\* the example of the claim: (1,5), (2,4), the marker, (1,9), (2,8)
C15_Witness ==
    /\ contents = <<IterLine(1, 5), IterLine(2, 4), DropLine, IterLine(1, 9),
                    IterLine(2, 8)>>
    /\ parsed.by = "pbqff"
    /\ parsed.data = <<DataSet("Points remaining", << <<1, 9>>, <<2, 8>> >>)>>

\* the lines of a text whose first token is all digits, in order
RECURSIVE Qualifying(_, _)
Qualifying(text, k) ==
    IF k > Len(text) THEN <<>>
    ELSE (IF Len(text[k]) >= 1 /\ is_numeric(text[k][1])
          THEN <<text[k]>> ELSE <<>>)
         \o Qualifying(text, k + 1)

\* the series a text's qualifying lines q give from their token at col
Column(q, col) == [i \in 1..Len(q) |-> <<i - 1, q[i][col].v>>]

\* C16: when parse_semp returns, each of its three series has one point per
\* line whose first token is all digits, x counting those lines from 0 and y
\* the line's 2nd, 4th and 6th token; other lines add nothing and do not
\* advance the count, and the three series have the same length.
C16_SempPoints ==
    (parsed.by = "semp" /\ parsed.ok) =>
        LET q == Qualifying(contents, 1) IN
        /\ parsed.data = <<DataSet("Norm", Column(q, 2)),
                           DataSet("RMSD", Column(q, 4)),
                           DataSet("MAX", Column(q, 6))>>
        /\ \A k \in 1..3 : Len(parsed.data[k].data) = Len(q)

\* two qualifying lines with a word-led line and a blank line between them
C16_Witness ==
    /\ contents = <<SempLine(IntTok(3), 10), SempLine(W_OTHER, 30), <<>>,
                    SempLine(IntTok(4), 20)>>
    /\ parsed.by = "semp"
    /\ parsed.data[1].data = << <<0, 10>>, <<1, 20>> >>
    /\ parsed.data[3].data = << <<0, 12>>, <<1, 22>> >>

\* a dropped marker is waiting: no iteration line follows the last marker
Pending(text) ==
    \E k \in 1..Len(text) :
        /\ starts_with_dropped(text[k])
        /\ \A j \in (k + 1)..Len(text) : ~starts_with_iter(text[j])

Front(s) == SubSeq(s, 1, Len(s) - 1)

\* C20: line by line, parse_pbqff clears its series only at an iteration
\* line read while a dropped marker is waiting: a dropped-marker line (the
\* first or a repeated one) and any other line leave the series as it is,
\* an iteration line appends its point, after the clear if a marker waits.
C20_ClearAtNextIter ==
    (parsed.by = "pbqff" /\ parsed.ok /\ Len(contents) >= 1) =>
        LET line == contents[Len(contents)]
            before == parse_pbqff(Front(contents)).data[1].data
            point == <<line[2].v, line[8].v>>
        IN parsed.data[1].data =
               IF ~starts_with_iter(line) THEN before
               ELSE IF Pending(Front(contents)) THEN <<point>>
               ELSE Append(before, point)

\* a text that ends in two dropped markers: the points before them are kept
C20_Witness ==
    /\ contents = <<IterLine(1, 5), IterLine(2, 4), DropLine, DropLine>>
    /\ parsed.by = "pbqff"
    /\ parsed.data[1].data = << <<1, 5>>, <<2, 4>> >>

\* ------------------------------------------------- channels, both ways
\* the messages between the two threads that are neither applied nor lost:
\* the requests waiting, the request the worker holds, the results waiting
InPipe ==
    Len(requests) + (IF worker = "busy" THEN 1 ELSE 0) + Len(results)

\* C21: messages are conserved between the coordinator and the worker. In
\* every step that leaves the program running: a result appears only when
\* the worker finishes the request it holds, it is one result, it carries
\* the index and the target of that request, and the worker holds nothing
\* afterwards (a request yields at most one result); the worker takes up a
\* request only by removing the oldest one sent; a step of the worker never
\* adds a message, so the results emitted never outnumber the requests sent;
\* a tick adds to the request channel exactly the requests it sent, and each
\* result it applies is one it removed from the result channel, in order,
\* so no result is applied twice.
C21_MessagesConserved ==
    [][gui' = "running" =>
         /\ Len(results') > Len(results) =>
              /\ worker = "busy" /\ worker' = "idle" /\ cur' = NoRequest
              /\ results' = Append(results, results'[Len(results')])
              /\ results'[Len(results')].idx = cur.idx
              /\ results'[Len(results')].project.name = cur.project.name
         /\ (worker # "busy" /\ worker' = "busy") =>
              /\ Len(requests) > 0
              /\ cur' = Head(requests)
              /\ requests' = Tail(requests)
              /\ results' = results
         /\ IF last_tick'.repaint >= 0
            THEN LET done == last_tick'.applied IN
                 /\ Len(requests') = Len(requests) + Len(last_tick'.sent)
                 /\ SubSeq(requests', 1, Len(requests)) = requests
                 /\ \A k \in 1..Len(last_tick'.sent) :
                      /\ requests'[Len(requests) + k].idx =
                             last_tick'.sent[k].idx
                      /\ requests'[Len(requests) + k].project.name =
                             last_tick'.sent[k].name
                 /\ Len(done) <= Len(results)
                 /\ \A k \in 1..Len(done) :
                      /\ done[k].idx = results[k].idx
                      /\ done[k].rname = results[k].project.name
                 /\ results' = SubSeq(results, Len(done) + 1, Len(results))
                 /\ worker' = worker /\ cur' = cur
            ELSE /\ InPipe' <= InPipe
                 /\ Len(requests') <= Len(requests)
      ]_vars

\* a tick has applied the result of a first request and taken it out of the
\* channel while the worker holds a second request for the same target
C21_Witness ==
    /\ gui = "running"
    /\ Len(last_tick.applied) = 1
    /\ last_tick.applied[1].wrote
    /\ results = <<>>
    /\ worker = "busy"
    /\ cur.idx = last_tick.applied[1].idx

\* C22: every request is sent with an index inside the registry as it is at
\* the moment of sending, whether the staleness scan, a Force Update click
\* or add-target (the last index, right after the push) enqueues it:
\* request_update never indexes out of bounds, and every request a tick sent
\* has an index below the length the registry has from the push of the add
\* window to the end of the loop, where the target at that index is the one
\* the request carries.
C22_SentIndexInBounds ==
    /\ gui # "request"
    /\ \A k \in 1..Len(last_tick.sent) :
         LET s == last_tick.sent[k] IN
         /\ s.idx \in 0..(Len(last_tick.scanned) - 1)
         /\ last_tick.scanned[s.idx + 1] = s.name

\* a tick that added a second target and enqueued it at the last index, 1,
\* while the first target was marked for removal: the registry is shortened
\* to one target only after the loop
C22_Witness ==
    /\ gui = "running"
    /\ Len(last_tick.scanned) = 2
    /\ last_tick.sent = << [idx |-> 1, name |-> last_tick.scanned[2]] >>
    /\ last_tick.removed = <<0>>
    /\ Names(projects) = << last_tick.scanned[2] >>

====
